---- MODULE Spec2Model ----
(***************************************************************************)
(* Model of vergessen: the SM-2 scheduler (Card.CalcNextRep, Card.interval,*)
(* calcEf) and the deck store (OpenDeck, AddCard, DeleteCard, Sync, Close) *)
(* together with the commands of the shell that mutate the deck.           *)
(*                                                                         *)
(* Numbers.  Easiness factors are decimals with two places; they are kept  *)
(* as integers in hundredths (1.75 is 175).  Time is counted in ticks of   *)
(* 1/TicksPerSec second, so that Time.Unix() (whole seconds) is a real     *)
(* truncation.  An interval is a number of days num / 100^exp.             *)
(***************************************************************************)
EXTENDS Integers, Sequences, FiniteSets, TLC

(* ---------------------------- bounds ---------------------------------- *)
MaxCards == 2
MaxCreated == 2
MaxAdded == 3
MaxReps == 4
MaxStudyReps == 2
MaxHardness == 6
MaxDays == 5
MaxFaults == 1
MaxStoredReps == 1
MaxLoopReps == 3
MaxBadInputs == 1
TicksPerSec == 2

(* ------------------------- program constants -------------------------- *)
defaultEF == 175
maxStudy == 20
floorEF == 130
firstIntervalDays == 1
secondIntervalDays == 4
intervalOne == 1
intervalTwo == 6
immediateHardness == 5
SecondsPerDay == 86400

DayTicks == SecondsPerDay * TicksPerSec
\* 1/100 day in ticks (864 s), the unit that goes with one easiness factor
CentiDayTicks == (SecondsPerDay \div 100) * TicksPerSec

\* texts: the k-th card authored has the prompt NewPrompt(k); an edit types
\* one of EditPrompts, EditAnswers or leaves the text (Keep)
NewPrompt(k) == IF k = 0 THEN "p1" ELSE IF k = 1 THEN "p2" ELSE "p3"
NewAnswer == "a1"
EditPrompts == {"px"}
EditAnswers == {"a1"}
Keep == "keep"
\* the clock is read at any tick within the current second
Fracs == 0..(TicksPerSec - 1)
HardnessInputs == 0..MaxHardness
StudyHardness == {3, 5}
Variants == {"deck", "part_000"}

VARIABLES
    variant,     \* which CalcNextRep is built: deck/deck.go or part_000
                 \* (the shell is built with deck/deck.go)
    now,         \* the wall clock, in ticks
    disk,        \* [main |-> file at d.Path, tmp |-> file at d.Path + ".sync"]
    session,     \* "closed" | "open": whether a process holds a deck;
                 \* "nil" | "panic": main after a failed OpenDeck
    Cards,       \* d.Cards
    Dirty,       \* d.Dirty
    pc,          \* "idle" or the statement of Deck.Sync that runs next
    syncCaller,  \* "study" | "Close": who called Sync
    pre,         \* the file at d.Path as it was when Sync was entered
    created,     \* number of cards authored so far
    faults,      \* number of storage operations that have failed on I/O
    last,        \* the last review of the card c: hardness, time, card before
    c,           \* a card outside any deck (scheduler specification)
    call,        \* the call of the deck package that the last step made or
                 \* returned from, with its argument and its error result
    deleted,     \* the ids DeleteCard has removed in this session
    handles,     \* the open database handles: the one d.DB holds, the one
                 \* Sync's local db holds, and those no variable holds
    st           \* the frame of a running study: the loop position, the
                 \* count studied, the unreadable hardness lines so far and
                 \* the deck as it was on entry

vars == <<variant, now, disk, session, Cards, Dirty, pc, syncCaller, pre,
          created, faults, last, c, call, deleted, handles, st>>

deckVars == <<disk, session, Cards, Dirty, pc, syncCaller, pre, created, faults,
              call, deleted, handles>>

(* ------------------------------ time ---------------------------------- *)
\* time.Time.Unix(): whole seconds
Unix(t) == t \div TicksPerSec
\* time.Unix(sec, 0)
TimeUnix(sec) == sec * TicksPerSec

\* floor(a * b / d) without forming a * b
MulDivFloor(a, b, d) == (a \div d) * b + ((a % d) * b) \div d

RECURSIVE Pow100(_)
Pow100(k) == IF k = 0 THEN 1 ELSE 100 * Pow100(k - 1)

\* time.Duration(float64(time.Hour) * 24 * days), truncated; the product is
\* formed in exact decimals where Go forms it in float64
DurationOfDays(iv) ==
    IF iv.exp = 0 THEN iv.num * DayTicks
    ELSE MulDivFloor(iv.num, CentiDayTicks, Pow100(iv.exp - 1))

(* ------------------------------ cards --------------------------------- *)
NewCard(prompt, answer, t) ==
    [Id |-> 0, Prompt |-> prompt, Answer |-> answer, Reps |-> 0,
     NextRep |-> t, EFs |-> <<>>, Hardnesses |-> <<>>]

\* calcEf with the floor at 1.0
calcEfFloorOne(efprime, hardness) ==
    LET ef == efprime - 80 + 28 * hardness - 2 * (hardness * hardness)
    IN  IF ef < 100 THEN 100 ELSE ef

\* calcEf without the floor at 1.3
calcEfNoFloor(efprime, hardness) ==
    efprime - 80 + 28 * hardness - 2 * (hardness * hardness)

calcEf(efprime, hardness) ==
    LET ef == efprime - 80 + 28 * hardness - 2 * (hardness * hardness)
    IN  IF ef < floorEF THEN floorEF ELSE ef

RECURSIVE Pow(_, _)
Pow(b, k) == IF k = 0 THEN 1 ELSE b * Pow(b, k - 1)

RECURSIVE interval(_, _)
\* a closed form in n: six days times a power of the latest easiness
intervalClosedForm(efs, n) ==
    IF n = 1 THEN [num |-> intervalOne, exp |-> 0]
    ELSE IF n = 2 THEN [num |-> intervalTwo, exp |-> 0]
    ELSE [num |-> intervalTwo * Pow(efs[n], n - 2), exp |-> n - 2]

\* Card.interval(n) over the easiness history efs (EFs[n-1] in Go is efs[n])
interval(efs, n) ==
    IF n = 1 THEN [num |-> intervalOne, exp |-> 0]
    ELSE IF n = 2 THEN [num |-> intervalTwo, exp |-> 0]
    ELSE LET p == interval(efs, n - 1)
         IN  [num |-> p.num * efs[n], exp |-> p.exp + 1]

\* the history append dropped on the first review
appendHardnessLate(card, hardness) ==
    IF card.Reps = 0 THEN card.Hardnesses
    ELSE Append(card.Hardnesses, hardness)

\* c.Hardnesses = append(c.Hardnesses, hardness)
appendHardness(card, hardness) == Append(card.Hardnesses, hardness)

\* the easiness of two reviews back handed to calcEf
prevEfStale(card, reps) == card.EFs[reps - 2]

\* c.EFs[c.Reps-2], read after Reps++ (reps is the incremented count)
prevEf(card, reps) == card.EFs[reps - 1]

\* the SM-2 value of six days used for the second review
earlyDaysSM2(reps) == IF reps = 1 THEN firstIntervalDays ELSE intervalTwo

\* the fixed offsets of the first two reviews
earlyDays(reps) == IF reps = 1 THEN firstIntervalDays ELSE secondIntervalDays

CalcNextRep(card, hardness, t, v) ==
    LET reps == card.Reps + 1
        hs == appendHardness(card, hardness)
    IN  IF reps = 1 \/ reps = 2 THEN
            [card EXCEPT !.Reps = reps, !.Hardnesses = hs,
                         !.NextRep = t + earlyDays(reps) * DayTicks,
                         !.EFs = Append(card.EFs, defaultEF)]
        ELSE
            LET efs == Append(card.EFs, calcEf(prevEf(card, reps), hs[reps]))
            IN  [card EXCEPT !.Reps = reps, !.Hardnesses = hs, !.EFs = efs,
                     !.NextRep =
                        IF v = "part_000" /\ hardness = immediateHardness
                        THEN t
                        ELSE t + DurationOfDays(interval(efs, reps))]

(* ---------------------------- storage --------------------------------- *)
\* A file holding an SQLite database.  A table is the sequence of its rows in
\* rowid order; "id integer not null primary key" makes the rowid of a new
\* row one more than the largest, so a row's id is its position.
NoFile == [exists |-> FALSE, schema |-> FALSE,
           cards |-> <<>>, efs |-> <<>>, hardnesses |-> <<>>]

\* a file created by SQLite on first access, no table yet
BlankFile == [NoFile EXCEPT !.exists = TRUE]

\* a createDeckStmt that creates no table
EmptyDBWithoutTables == BlankFile

\* createDeckStmt executed on a file without tables
EmptyDB == [BlankFile EXCEPT !.schema = TRUE]

Range(f) == {f[i] : i \in DOMAIN f}

\* the orders of a select without "order by"
AnyPerms(rows) ==
    {p \in [1..Len(rows) -> 1..Len(rows)] :
        \A i, j \in 1..Len(rows) : i # j => p[i] # p[j]}

\* the orders in which "select * from cards order by nextrep" may deliver the
\* rows: ascending nextrep, rows of equal nextrep in any order
SortedPerms(rows) ==
    {p \in [1..Len(rows) -> 1..Len(rows)] :
        /\ \A i, j \in 1..Len(rows) : i # j => p[i] # p[j]
        /\ \A i, j \in 1..Len(rows) :
              i < j => rows[p[i]].nextrep <= rows[p[j]].nextrep}

RECURSIVE Column(_, _, _)
\* a select that finds no row
ColumnEmpty(table, id, field) == <<>>

\* "select <field> from <table> where card_id = id order by id"
Column(table, id, field) ==
    IF table = <<>> THEN <<>>
    ELSE LET rest == Column(Tail(table), id, field)
         IN  IF Head(table).card_id = id
             THEN <<Head(table)[field]>> \o rest
             ELSE rest

(* --------------------------- deck operations -------------------------- *)
\* an AddCard that numbers the first card of a deck 1
AddCardFromOne(cards, card) ==
    Append(cards,
           [card EXCEPT !.Id = IF Len(cards) > 0
                               THEN cards[Len(cards)].Id + 1
                               ELSE 1])

\* an AddCard that leaves the id the card came with
AddCardKeepingId(cards, card) == Append(cards, card)

\* an AddCard that numbers the card by the length of the deck
AddCardByLength(cards, card) == Append(cards, [card EXCEPT !.Id = Len(cards)])

AddCard(cards, card) ==
    Append(cards,
           [card EXCEPT !.Id = IF Len(cards) > 0
                               THEN cards[Len(cards)].Id + 1
                               ELSE 0])

\* a DeleteCard that drops the matching card and every card after it
DeleteCardTruncating(cards, id) ==
    IF \E i \in 1..Len(cards) : cards[i].Id = id
    THEN LET i == CHOOSE k \in 1..Len(cards) :
                     /\ cards[k].Id = id
                     /\ \A m \in 1..(k - 1) : cards[m].Id # id
         IN  SubSeq(cards, 1, i - 1)
    ELSE cards

\* a DeleteCard that drops the last card when no card matches
DeleteCardOrLast(cards, id) ==
    IF \E i \in 1..Len(cards) : cards[i].Id = id
    THEN LET i == CHOOSE k \in 1..Len(cards) :
                     /\ cards[k].Id = id
                     /\ \A m \in 1..(k - 1) : cards[m].Id # id
         IN  SubSeq(cards, 1, i - 1) \o SubSeq(cards, i + 1, Len(cards))
    ELSE SubSeq(cards, 1, Len(cards) - 1)

DeleteCard(cards, id) ==
    IF \E i \in 1..Len(cards) : cards[i].Id = id
    THEN LET i == CHOOSE k \in 1..Len(cards) :
                     /\ cards[k].Id = id
                     /\ \A m \in 1..(k - 1) : cards[m].Id # id
         IN  SubSeq(cards, 1, i - 1) \o SubSeq(cards, i + 1, Len(cards))
    ELSE cards

\* the error db.Query returns for "select ... where card_id = id": a result
\* without rows is no error (sql.ErrNoRows is returned by Row.Scan only)
QueryErr(table, id) == "nil"

\* OpenDeck's tests "err == sql.ErrNoRows && card.Reps > 0" on the two
\* history queries of row id
HistoryRejected(db, id) ==
    \/ QueryErr(db.efs, id) = "ErrNoRows" /\ db.cards[id].reps > 0
    \/ QueryErr(db.hardnesses, id) = "ErrNoRows" /\ db.cards[id].reps > 0

\* the card built from row number id of the cards table (OpenDeck's loop body
\* up to the call of AddCard)
CardOfRow(db, id, t) ==
    [NewCard(db.cards[id].prompt, db.cards[id].answer, t) EXCEPT
        !.Id = id,
        !.Reps = db.cards[id].reps,
        !.NextRep = TimeUnix(db.cards[id].nextrep),
        !.EFs = Column(db.efs, id, "ef"),
        !.Hardnesses = Column(db.hardnesses, id, "hardness")]

RECURSIVE LoadRows(_, _, _, _, _)
LoadRows(db, p, k, t, acc) ==
    IF k > Len(db.cards) THEN acc
    ELSE LoadRows(db, p, k + 1, t, AddCard(acc, CardOfRow(db, p[k], t)))

\* the cards OpenDeck returns when the rows arrive in the order p
LoadDeck(db, p, t) == LoadRows(db, p, 1, t, <<>>)

\* the row Sync inserts for a card; the id column is left to SQLite
CardRow(card) ==
    [prompt |-> card.Prompt, answer |-> card.Answer, reps |-> card.Reps,
     nextrep |-> Unix(card.NextRep)]

(* ------------------------------ Sync ---------------------------------- *)
\* Deck.Sync is modelled statement by statement: pc is the statement that
\* runs next, and a statement that returns an error ends Sync there.  The
\* inserts of the loop over d.Cards are one step when they all succeed; when
\* one of them fails, the rows inserted before it stay in path + ".sync".
SyncPcs == {"SyncOpen", "SyncSchema", "SyncInsert", "SyncRemove", "SyncRename",
            "SyncReopen"}

NoPre == [taken |-> FALSE, main |-> NoFile, cards |-> <<>>, dirty |-> FALSE]

\* no call of the deck package in the step
NoCall == [op |-> "none", arg |-> 0, err |-> FALSE, out |-> <<>>]

\* the call op(arg) and whether the error it returned is non-nil
Returned(op, arg, err) == [NoCall EXCEPT !.op = op, !.arg = arg, !.err = err]

\* the command op(arg) has returned nil after printing the lines out
Printed(op, arg, out) == [NoCall EXCEPT !.op = op, !.arg = arg, !.out = out]

\* Handles of *sql.DB.  db is the statement that opened the handle d.DB
\* holds ("none": nil or closed), tmp whether Sync's local db is open,
\* orphans the statements whose handle is open and held by no variable.
NoHandles == [db |-> "none", tmp |-> FALSE, orphans |-> {}]

\* the handle d.DB held is left open and d.DB gets the handle opened by by
Replaced(h, by) ==
    [h EXCEPT !.db = by,
              !.orphans = IF h.db = "none" THEN @ ELSE @ \union {h.db}]

\* Sync returns with its local db still open
TmpLeft(h) ==
    [h EXCEPT !.tmp = FALSE,
              !.orphans = IF h.tmp THEN @ \union {"Sync.db"} ELSE @]

\* the inserts of one card without its hardness rows
CardInsertsNoHardness(card) ==
    <<[table |-> "cards", row |-> CardRow(card)]>>
    \o [j \in 1..Len(card.EFs) |-> [table |-> "efs", row |-> card.EFs[j]]]

\* the inserts Sync executes for one card, in order: the card row, one row
\* per easiness factor, one row per hardness
CardInserts(card) ==
    <<[table |-> "cards", row |-> CardRow(card)]>>
    \o [j \in 1..Len(card.EFs) |-> [table |-> "efs", row |-> card.EFs[j]]]
    \o [j \in 1..Len(card.Hardnesses) |->
            [table |-> "hardnesses", row |-> card.Hardnesses[j]]]

RECURSIVE DeckInserts(_)
\* "for _, card := range d.Cards"
DeckInserts(cards) ==
    IF cards = <<>> THEN <<>>
    ELSE CardInserts(Head(cards)) \o DeckInserts(Tail(cards))

\* one insert executed on the database db; a history row gets the id that
\* LastInsertId returned for the card row before it
Insert(db, ins) ==
    IF ins.table = "cards" THEN [db EXCEPT !.cards = Append(@, ins.row)]
    ELSE IF ins.table = "efs" THEN
        [db EXCEPT !.efs = Append(@, [card_id |-> Len(db.cards), ef |-> ins.row])]
    ELSE
        [db EXCEPT !.hardnesses =
            Append(@, [card_id |-> Len(db.cards), hardness |-> ins.row])]

RECURSIVE InsertAll(_, _, _)
\* the first k inserts of the sequence executed on db
InsertAll(db, inserts, k) ==
    IF k = 0 THEN db
    ELSE Insert(InsertAll(db, inserts, k - 1), inserts[k])

\* a storage operation fails on I/O (at most MaxFaults times in a run)
Fails == faults < MaxFaults /\ faults' = faults + 1

\* an error return that first removes the file at d.Path
abortSyncRemovingPath(d) == [d EXCEPT !.main = NoFile]

\* "if err != nil { return err }" in the write phase: nothing is cleaned up
abortSync(d) == d

\* a return of Sync that also clears the dirty flag on error
SyncReturnClearingDirty(dirty, err) ==
    /\ pc' = IF syncCaller = "Close" THEN "Close" ELSE "idle"
    /\ pre' = NoPre
    /\ call' = Returned("Sync", 0, err)
    /\ Dirty' = FALSE
    /\ syncCaller' = IF syncCaller = "Close" THEN "Close" ELSE "none"
    /\ UNCHANGED <<session, Cards, deleted>>

\* Sync returns err to its caller with d.Dirty = dirty: study returns to the
\* shell, Close goes on after its call of Sync
SyncReturn(dirty, err) ==
    /\ pc' = IF syncCaller = "Close" THEN "Close" ELSE "idle"
    /\ pre' = NoPre
    /\ call' = Returned("Sync", 0, err)
    /\ Dirty' = dirty
    /\ syncCaller' = IF syncCaller = "Close" THEN "Close" ELSE "none"
    /\ UNCHANGED <<session, Cards, deleted>>

SyncGoto(next) ==
    /\ pc' = next
    /\ call' = NoCall
    /\ UNCHANGED <<pre, session, Cards, Dirty, syncCaller, deleted>>

\* entry of Sync from the handler op, on the deck cards with d.Dirty = dirty
EnterSync(op, cards, dirty) ==
    /\ pc' = "SyncOpen"
    /\ syncCaller' = op
    /\ pre' = [taken |-> TRUE, main |-> disk.main, cards |-> cards,
               dirty |-> dirty]

\* os.Rename(new_path, d.Path) keeping the file at new_path
RenameCopying(d) == [main |-> d.tmp, tmp |-> d.tmp]

\* os.Rename(new_path, d.Path)
Rename(d) == [main |-> d.tmp, tmp |-> NoFile]

\* db, err := sql.Open("sqlite3", new_path)
SyncOpen ==
    /\ pc = "SyncOpen"
    /\ handles' = [handles EXCEPT !.tmp = TRUE]
    /\ SyncGoto("SyncSchema")
    /\ UNCHANGED <<variant, st, now, disk, created, faults, last, c>>

SyncOpenFails ==
    /\ pc = "SyncOpen"
    /\ Fails
    /\ SyncReturn(Dirty, TRUE)
    /\ UNCHANGED <<variant, st, now, disk, created, last, c, handles>>

\* _, err = db.Exec(createDeckStmt) on path + ".sync"
SyncSchema ==
    /\ pc = "SyncSchema"
    /\ ~disk.tmp.schema
    /\ disk' = [disk EXCEPT !.tmp = EmptyDB]
    /\ SyncGoto("SyncInsert")
    /\ UNCHANGED <<variant, st, now, created, faults, last, c, handles>>

\* a schema creation that empties a database left at path + ".sync"
SyncSchemaOverwrites ==
    /\ pc = "SyncSchema"
    /\ disk.tmp.schema
    /\ disk' = [disk EXCEPT !.tmp = EmptyDB]
    /\ SyncGoto("SyncInsert")
    /\ UNCHANGED <<variant, st, now, created, faults, last, c, handles>>

\* ... when path + ".sync" is left from an earlier Sync: table cards exists
SyncSchemaExists ==
    /\ pc = "SyncSchema"
    /\ disk.tmp.schema
    /\ disk' = abortSync(disk)
    /\ handles' = TmpLeft(handles)
    /\ SyncReturn(Dirty, TRUE)
    /\ UNCHANGED <<variant, st, now, created, faults, last, c>>

\* ... when the statement fails on I/O; the file may have been created
SyncSchemaFails ==
    /\ pc = "SyncSchema"
    /\ ~disk.tmp.schema
    /\ Fails
    /\ \E touched \in BOOLEAN :
          disk' = abortSync(IF touched /\ ~disk.tmp.exists
                            THEN [disk EXCEPT !.tmp = BlankFile]
                            ELSE disk)
    /\ handles' = TmpLeft(handles)
    /\ SyncReturn(Dirty, TRUE)
    /\ UNCHANGED <<variant, st, now, created, last, c>>

\* the loop over d.Cards: every db.Exec(insert...) succeeds
SyncInsert ==
    /\ pc = "SyncInsert"
    /\ LET inserts == DeckInserts(Cards)
       IN  disk' = [disk EXCEPT !.tmp = InsertAll(@, inserts, Len(inserts))]
    /\ SyncGoto("SyncRemove")
    /\ UNCHANGED <<variant, st, now, created, faults, last, c, handles>>

\* the loop over d.Cards: the insert number k + 1 returns an error
SyncInsertFails ==
    /\ pc = "SyncInsert"
    /\ Fails
    /\ LET inserts == DeckInserts(Cards)
       IN  \E k \in 0..(Len(inserts) - 1) :
              disk' = abortSync([disk EXCEPT !.tmp = InsertAll(@, inserts, k)])
    /\ handles' = TmpLeft(handles)
    /\ SyncReturn(Dirty, TRUE)
    /\ UNCHANGED <<variant, st, now, created, last, c>>

\* the process stops (is killed, loses power) between two statements of
\* Sync: the files stay as they are, the memory and the handles are gone;
\* faults counts these stops too
ProcessStops ==
    /\ pc \in SyncPcs
    /\ Fails
    /\ session' = "closed"
    /\ Cards' = <<>>
    /\ Dirty' = FALSE
    /\ pc' = "idle"
    /\ syncCaller' = "none"
    /\ pre' = NoPre
    /\ call' = Returned("stopped", 0, FALSE)
    /\ deleted' = {}
    /\ handles' = NoHandles
    /\ UNCHANGED <<variant, st, now, disk, created, last, c>>

\* an os.Remove(d.Path) that leaves the file in place
SyncRemoveKeeping ==
    /\ pc = "SyncRemove"
    /\ disk.main.exists
    /\ handles' = [handles EXCEPT !.tmp = FALSE]
    /\ SyncGoto("SyncRename")
    /\ UNCHANGED <<variant, st, now, disk, created, faults, last, c>>

\* db.Close(); err = os.Remove(d.Path)
SyncRemove ==
    /\ pc = "SyncRemove"
    /\ disk.main.exists
    /\ disk' = [disk EXCEPT !.main = NoFile]
    /\ handles' = [handles EXCEPT !.tmp = FALSE]
    /\ SyncGoto("SyncRename")
    /\ UNCHANGED <<variant, st, now, created, faults, last, c>>

\* ... when the unlink fails (OpenDeck has created the file at d.Path)
SyncRemoveFails ==
    /\ pc = "SyncRemove"
    /\ disk.main.exists
    /\ Fails
    /\ handles' = [handles EXCEPT !.tmp = FALSE]
    /\ SyncReturn(Dirty, TRUE)
    /\ UNCHANGED <<variant, st, now, disk, created, last, c>>

\* err = os.Rename(new_path, d.Path)
SyncRename ==
    /\ pc = "SyncRename"
    /\ disk' = Rename(disk)
    /\ SyncGoto("SyncReopen")
    /\ UNCHANGED <<variant, st, now, created, faults, last, c, handles>>

SyncRenameFails ==
    /\ pc = "SyncRename"
    /\ Fails
    /\ SyncReturn(Dirty, TRUE)
    /\ UNCHANGED <<variant, st, now, disk, created, last, c, handles>>

\* d.DB, err = sql.Open("sqlite3", d.Path); d.Dirty = false; return nil
SyncReopen ==
    /\ pc = "SyncReopen"
    /\ handles' = Replaced(handles, "Sync")
    /\ SyncReturn(FALSE, FALSE)
    /\ UNCHANGED <<variant, st, now, disk, created, faults, last, c>>

\* ... when sql.Open returns an error: d.DB is nil
SyncReopenFails ==
    /\ pc = "SyncReopen"
    /\ Fails
    /\ handles' = Replaced(handles, "none")
    /\ SyncReturn(Dirty, TRUE)
    /\ UNCHANGED <<variant, st, now, disk, created, last, c>>

(* ----------------------------- session -------------------------------- *)
\* no study is running
NoStudy == [i |-> 0, studied |-> 0, bad |-> 0, before |-> <<>>]

NoReview == [op |-> "none", hardness |-> 0, at |-> 0, before |-> <<>>,
             running |-> [num |-> 0, exp |-> 0]]

Init ==
    /\ variant = "deck"
    /\ now = 0
    /\ disk = [main |-> NoFile, tmp |-> NoFile]
    /\ session = "closed"
    /\ Cards = <<>>
    /\ Dirty = FALSE
    /\ pc = "idle"
    /\ syncCaller = "none"
    /\ pre = NoPre
    /\ last = NoReview
    /\ created = 0
    /\ faults = 0
    /\ c = NewCard(NewPrompt(0), NewAnswer, 0)
    /\ call = NoCall
    /\ deleted = {}
    /\ handles = NoHandles
    /\ st = NoStudy

Idle == session = "open" /\ pc = "idle"

\* main: deck.OpenDeck(os.Args[1]) where the file has no table cards
OpenDeckNew ==
    /\ session = "closed" /\ pc = "idle"
    /\ ~disk.main.schema
    /\ disk' = [disk EXCEPT !.main = EmptyDB]
    /\ Cards' = <<>>
    /\ Dirty' = FALSE
    /\ session' = "open"
    /\ call' = Returned("OpenDeck", 0, FALSE)
    /\ deleted' = {}
    /\ handles' = [NoHandles EXCEPT !.db = "OpenDeck"]
    /\ UNCHANGED <<variant, st, now, pc, syncCaller, pre, created, faults, last, c>>

\* main: deck.OpenDeck(os.Args[1]) on a stored deck
OpenDeck ==
    /\ session = "closed" /\ pc = "idle"
    /\ disk.main.schema
    /\ IF \E id \in 1..Len(disk.main.cards) : HistoryRejected(disk.main, id)
       THEN /\ call' = Returned("OpenDeck", 0, TRUE)
            /\ handles' = [NoHandles EXCEPT !.orphans = {"OpenDeck"}]
            /\ session' = "nil"
            /\ UNCHANGED <<Cards, Dirty>>
       ELSE /\ \E p \in SortedPerms(disk.main.cards) :
                  Cards' = LoadDeck(disk.main, p, now)
            /\ Dirty' = FALSE
            /\ session' = "open"
            /\ call' = Returned("OpenDeck", 0, FALSE)
            /\ handles' = [NoHandles EXCEPT !.db = "OpenDeck"]
    /\ deleted' = {}
    /\ UNCHANGED <<variant, st, now, disk, pc, syncCaller, pre, created, faults,
                   last, c>>

\* a query or a scan of OpenDeck fails: no deck is returned, and the handle
\* sql.Open returned is not closed; main prints the error and goes on with
\* the nil deck
OpenDeckFails ==
    /\ session = "closed" /\ pc = "idle"
    /\ Fails
    /\ call' = Returned("OpenDeck", 0, TRUE)
    /\ deleted' = {}
    /\ handles' = [NoHandles EXCEPT !.orphans = {"OpenDeck"}]
    /\ session' = "nil"
    /\ UNCHANGED <<variant, st, now, disk, Cards, Dirty, pc, syncCaller,
                   pre, created, last, c>>

\* main after a failed OpenDeck: len(deck.Cards) on the nil deck panics
mainReadsCards ==
    /\ session = "nil"
    /\ session' = "panic"
    /\ call' = Returned("deck.Cards", 0, TRUE)
    /\ UNCHANGED <<variant, st, now, disk, Cards, Dirty, pc, syncCaller, pre,
                   created, faults, last, c, deleted, handles>>

\* the panic runs the deferred deck.Close() on the nil deck, which panics at
\* d.Dirty; the process ends
mainDeferredClose ==
    /\ session = "panic"
    /\ session' = "closed"
    /\ call' = Returned("deck.Close", 0, TRUE)
    /\ UNCHANGED <<variant, st, now, disk, Cards, Dirty, pc, syncCaller, pre,
                   created, faults, last, c, deleted, handles>>

\* the command "new": NewCard, then Deck.AddCard; the clock is read frac
\* ticks into the current second
newCard ==
    /\ Idle
    /\ Len(Cards) < MaxCards
    /\ created < MaxCreated
    /\ created' = created + 1
    /\ \E frac \in Fracs :
          Cards' = AddCard(Cards, NewCard(NewPrompt(created), NewAnswer, now + frac))
    /\ Dirty' = TRUE
    /\ call' = Returned("AddCard", 0, FALSE)
    /\ UNCHANGED <<variant, st, now, disk, session, pc, syncCaller, pre, faults,
                   last, c, deleted, handles>>

\* the command "del": Deck.DeleteCard(id)
delCard ==
    /\ Idle
    /\ \E id \in 0..MaxCreated :
          /\ Cards' = DeleteCard(Cards, id)
          /\ Dirty' = IF \E i \in 1..Len(Cards) : Cards[i].Id = id
                      THEN TRUE ELSE Dirty
          /\ deleted' = IF \E i \in 1..Len(Cards) : Cards[i].Id = id
                        THEN deleted \union {id} ELSE deleted
          /\ call' = Returned("DeleteCard", id, FALSE)
    /\ UNCHANGED <<variant, st, now, disk, session, pc, syncCaller, pre, created,
                   faults, last, c, handles>>

\* the command "edit": the first card with that id gets the texts the editor
\* returns; Keep stands for CTRL+D at the question
editCard ==
    /\ Idle
    /\ \E id \in 0..MaxCreated :
          IF \E i \in 1..Len(Cards) : Cards[i].Id = id
          THEN LET i == CHOOSE k \in 1..Len(Cards) :
                           /\ Cards[k].Id = id
                           /\ \A m \in 1..(k - 1) : Cards[m].Id # id
               IN  \E prompt \in EditPrompts \union {Keep},
                      answer \in EditAnswers \union {Keep} :
                      /\ Cards' = [Cards EXCEPT
                            ![i].Prompt = IF prompt = Keep THEN @ ELSE prompt,
                            ![i].Answer = IF answer = Keep THEN @ ELSE answer]
                      /\ call' = Returned("editCard", id, FALSE)
          ELSE /\ UNCHANGED Cards
               /\ call' = Returned("editCard", id, TRUE)
    /\ UNCHANGED <<deleted, handles>>
    /\ UNCHANGED <<variant, st, now, disk, session, Dirty, pc, syncCaller, pre,
                   created, faults, last, c>>

\* the command "show": d.Cards[id] (Go counts from 0) is printed unless id is
\* outside the slice
showCard ==
    /\ Idle
    /\ \E id \in 0..MaxCreated :
          IF id > Len(Cards) - 1 \/ id < 0
          THEN call' = Returned("showCard", id, TRUE)
          ELSE call' = Printed("showCard", id,
                               <<Cards[id + 1].Prompt, Cards[id + 1].Answer>>)
    /\ UNCHANGED <<variant, st, now, disk, session, Cards, Dirty, pc, syncCaller,
                   pre, created, faults, last, c, deleted, handles>>

\* study's test "now.Unix() < card.NextRep.Unix()" negated
IsDue(card, t) == ~(Unix(t) < Unix(card.NextRep))

RECURSIVE dueCards(_, _)
\* the command "due": the number it prints for the deck cards at time t
dueCards(cards, t) ==
    IF cards = <<>> THEN 0
    ELSE (IF Unix(Head(cards).NextRep) < Unix(t) THEN 1 ELSE 0)
         + dueCards(Tail(cards), t)

RECURSIVE StudyLoop(_, _, _, _, _, _, _)
\* the loop of study from card i on: hs[i] is the hardness typed for card i,
\* failAt the card at which reading the input fails (0: never)
StudyLoop(cards, i, studied, hs, failAt, t, v) ==
    IF i > Len(cards) THEN [cards |-> cards, studied |-> studied, err |-> FALSE]
    ELSE IF ~IsDue(cards[i], t) THEN
        StudyLoop(cards, i + 1, studied, hs, failAt, t, v)
    ELSE IF failAt = i THEN [cards |-> cards, studied |-> studied, err |-> TRUE]
    ELSE LET next == [cards EXCEPT ![i] = CalcNextRep(cards[i], hs[i], t, v)]
         IN  IF studied + 1 > maxStudy
             THEN [cards |-> next, studied |-> studied + 1, err |-> FALSE]
             ELSE StudyLoop(next, i + 1, studied + 1, hs, failAt, t, v)

\* the command "study": the loop over the due cards, which sets Dirty after
\* each review; Sync follows unless reading the input failed
study ==
    /\ Idle
    /\ \A i \in 1..Len(Cards) : IsDue(Cards[i], now) => Cards[i].Reps < MaxStudyReps
    /\ \E hs \in [1..Len(Cards) -> StudyHardness], failAt \in 0..Len(Cards) :
          /\ failAt # 0 => IsDue(Cards[failAt], now)
          /\ \A i \in 1..Len(Cards) : ~IsDue(Cards[i], now) => hs[i] = 3
          /\ LET r == StudyLoop(Cards, 1, 0, hs, failAt, now, variant)
                 dirty == IF r.studied > 0 THEN TRUE ELSE Dirty
             IN  /\ Cards' = r.cards
                 /\ Dirty' = dirty
                 /\ IF r.err
                    THEN UNCHANGED <<pc, syncCaller, pre>>
                    ELSE EnterSync("study", r.cards, dirty)
    /\ call' = NoCall
    /\ UNCHANGED <<variant, st, now, disk, session, created, faults, last, c,
                   deleted, handles>>

\* a Close that never calls Sync
CloseWithoutSync ==
    /\ Idle
    /\ session' = "closed"
    /\ Cards' = <<>>
    /\ Dirty' = FALSE
    /\ deleted' = {}
    /\ call' = Returned("Close", 0, FALSE)
    /\ handles' = [handles EXCEPT !.db = "none"]
    /\ UNCHANGED <<pc, syncCaller, pre>>
    /\ UNCHANGED <<variant, st, now, disk, created, faults, last, c>>

\* main returns (quit or end of input): the deferred Deck.Close.  A dirty
\* deck enters Sync; otherwise d.DB.Close() and the process and its deck end.
Close ==
    /\ Idle
    /\ IF Dirty
       THEN /\ EnterSync("Close", Cards, Dirty)
            /\ call' = NoCall
            /\ UNCHANGED <<session, Cards, Dirty, deleted, handles>>
       ELSE /\ session' = "closed"
            /\ Cards' = <<>>
            /\ Dirty' = FALSE
            /\ deleted' = {}
            /\ call' = Returned("Close", 0, FALSE)
            /\ handles' = [handles EXCEPT !.db = "none"]
            /\ UNCHANGED <<pc, syncCaller, pre>>
    /\ UNCHANGED <<variant, st, now, disk, created, faults, last, c>>

\* Close after its call of Sync has returned: d.DB.Close() whether or not
\* Sync failed, the error of Sync is returned, the process and its deck end
\* (with d.DB nil, d.DB.Close() panics and the process ends there)
CloseAfterSync ==
    /\ pc = "Close"
    /\ call' = Returned("Close", 0, call.err)
    /\ handles' = [handles EXCEPT !.db = "none"]
    /\ session' = "closed"
    /\ Cards' = <<>>
    /\ Dirty' = FALSE
    /\ deleted' = {}
    /\ pc' = "idle"
    /\ syncCaller' = "none"
    /\ UNCHANGED <<variant, st, now, disk, pre, created, faults, last, c>>

\* time passes between commands, until the second in which some card is due
Tick ==
    /\ Idle
    /\ \E i \in 1..Len(Cards) :
          /\ ~IsDue(Cards[i], now)
          /\ Unix(Cards[i].NextRep) <= MaxDays * SecondsPerDay
          /\ now' = TimeUnix(Unix(Cards[i].NextRep))
    /\ call' = NoCall
    /\ UNCHANGED <<variant, st, last, c, deleted, handles>>
    /\ UNCHANGED <<disk, session, Cards, Dirty, pc, syncCaller, pre, created,
                   faults>>

\* a session on storage that never fails
Next ==
    \/ OpenDeckNew \/ OpenDeck \/ newCard \/ delCard \/ editCard \/ showCard
    \/ study \/ Close \/ CloseAfterSync \/ Tick
    \/ SyncOpen \/ SyncSchema \/ SyncInsert \/ SyncRemove \/ SyncRename
    \/ SyncReopen

Spec == Init /\ [][Next]_vars

\* a session that authors and studies cards on storage that may fail
FaultNext ==
    \/ OpenDeckNew \/ OpenDeck \/ OpenDeckFails \/ newCard \/ study
    \/ Close \/ CloseAfterSync \/ Tick
    \/ SyncOpen \/ SyncSchema \/ SyncInsert \/ SyncRemove \/ SyncRename
    \/ SyncReopen
    \/ SyncOpenFails \/ SyncSchemaExists \/ SyncSchemaFails \/ SyncInsertFails
    \/ SyncRemoveFails \/ SyncRenameFails
    \/ SyncReopenFails
    \/ ProcessStops
    \/ mainReadsCards \/ mainDeferredClose

FaultSpec == Init /\ [][FaultNext]_vars

(* ----------------------------- deck spec ------------------------------ *)
\* A client of package deck that adds and deletes cards, closes and opens
\* again, without reviewing.

\* d.AddCard(NewCard(prompt, answer))
addCard ==
    /\ Idle
    /\ created < MaxAdded
    /\ created' = created + 1
    /\ Cards' = AddCard(Cards, NewCard(NewPrompt(created), NewAnswer, now))
    /\ Dirty' = TRUE
    /\ call' = Returned("AddCard", 0, FALSE)
    /\ UNCHANGED <<variant, st, now, disk, session, pc, syncCaller, pre, faults,
                   last, c, deleted, handles>>

DeckNext ==
    \/ OpenDeckNew \/ OpenDeck \/ addCard \/ delCard
    \/ Close \/ CloseAfterSync
    \/ SyncOpen \/ SyncSchema \/ SyncInsert \/ SyncRemove \/ SyncRename
    \/ SyncReopen

DeckSpec == Init /\ [][DeckNext]_vars

(* ----------------------------- study spec ----------------------------- *)
\* The command "study" statement by statement, in the build whose
\* CalcNextRep makes a card of hardness 5 due at once.  pc = "study" while
\* the loop over d.Cards runs; st.i is the position of the loop.

\* a loop that stays on a card for as long as the card is due
rangeWhileDue(cards, i, t) == IF IsDue(cards[i], t) THEN i ELSE i + 1

\* "for _, card := range d.Cards": the next position, whatever the card at
\* position i has become
rangeNext(cards, i, t) == i + 1

\* the command is entered
studyBegin ==
    /\ Idle
    /\ \A i \in 1..Len(Cards) :
          IsDue(Cards[i], now) => Cards[i].Reps < MaxLoopReps
    /\ pc' = "study"
    /\ st' = [i |-> 1, studied |-> 0, bad |-> 0, before |-> Cards]
    /\ call' = NoCall
    /\ UNCHANGED <<variant, now, disk, session, Cards, Dirty, syncCaller, pre,
                   created, faults, last, c, deleted, handles>>

\* "if now.Unix() < card.NextRep.Unix() { continue }"
studySkip ==
    /\ pc = "study"
    /\ st.i <= Len(Cards)
    /\ ~IsDue(Cards[st.i], now)
    /\ st' = [st EXCEPT !.i = rangeNext(Cards, st.i, now)]
    /\ call' = NoCall
    /\ UNCHANGED <<variant, now, disk, session, Cards, Dirty, pc, syncCaller,
                   pre, created, faults, last, c, deleted, handles>>

\* a hardness line that strconv.Atoi rejects: the answer is shown again; the
\* input holds at most MaxBadInputs such lines
studyBadHardness ==
    /\ pc = "study"
    /\ st.i <= Len(Cards)
    /\ IsDue(Cards[st.i], now)
    /\ st.bad < MaxBadInputs
    /\ st' = [st EXCEPT !.bad = @ + 1]
    /\ call' = NoCall
    /\ UNCHANGED <<variant, now, disk, session, Cards, Dirty, pc, syncCaller,
                   pre, created, faults, last, c, deleted, handles>>

\* getInput returns an error (end of input): study returns it, without Sync
studyInputFails ==
    /\ pc = "study"
    /\ st.i <= Len(Cards)
    /\ IsDue(Cards[st.i], now)
    /\ pc' = "idle"
    /\ st' = NoStudy
    /\ call' = Returned("study", 0, TRUE)
    /\ UNCHANGED <<variant, now, disk, session, Cards, Dirty, syncCaller, pre,
                   created, faults, last, c, deleted, handles>>

\* card.CalcNextRep(hardness); d.Dirty = true; studied++; break after
\* maxStudy cards
studyReview ==
    /\ pc = "study"
    /\ st.i <= Len(Cards)
    /\ IsDue(Cards[st.i], now)
    /\ \E hardness \in StudyHardness :
          LET next == [Cards EXCEPT
                          ![st.i] = CalcNextRep(Cards[st.i], hardness, now,
                                                variant)]
          IN  /\ Cards' = next
              /\ st' = [st EXCEPT
                          !.studied = @ + 1,
                          !.i = IF st.studied + 1 > maxStudy
                                THEN Len(Cards) + 1
                                ELSE rangeNext(next, st.i, now)]
    /\ Dirty' = TRUE
    /\ call' = NoCall
    /\ UNCHANGED <<variant, now, disk, session, pc, syncCaller, pre, created,
                   faults, last, c, deleted, handles>>

\* the loop is over: "err := d.Sync()"
studyEnd ==
    /\ pc = "study"
    /\ st.i > Len(Cards)
    /\ EnterSync("study", Cards, Dirty)
    /\ st' = NoStudy
    /\ call' = NoCall
    /\ UNCHANGED <<variant, now, disk, session, Cards, Dirty, created, faults,
                   last, c, deleted, handles>>

StudyInit ==
    /\ variant = "part_000"
    /\ now = 0
    /\ disk = [main |-> NoFile, tmp |-> NoFile]
    /\ session = "closed"
    /\ Cards = <<>>
    /\ Dirty = FALSE
    /\ pc = "idle"
    /\ syncCaller = "none"
    /\ pre = NoPre
    /\ last = NoReview
    /\ created = 0
    /\ faults = 0
    /\ c = NewCard(NewPrompt(0), NewAnswer, 0)
    /\ call = NoCall
    /\ deleted = {}
    /\ handles = NoHandles
    /\ st = NoStudy

studyStep == studySkip \/ studyReview \/ studyInputFails \/ studyEnd

StudyNext ==
    \/ OpenDeckNew \/ newCard \/ Tick
    \/ studyBegin \/ studySkip \/ studyBadHardness \/ studyInputFails
    \/ studyReview \/ studyEnd
    \/ SyncOpen \/ SyncSchema \/ SyncInsert \/ SyncRemove \/ SyncRename
    \/ SyncReopen

\* the process keeps running and every prompt of study gets a line or the
\* end of the input
StudySpec == StudyInit /\ [][StudyNext]_vars /\ WF_vars(studyStep)

(* ----------------------------- load spec ------------------------------ *)
\* The client of the deck specification started on a file that it finds at
\* the path: none, or a database with one card row and any of its history
\* rows present or absent.
StoredFiles ==
    {NoFile} \union
    {[EmptyDB EXCEPT
        !.cards = <<[prompt |-> NewPrompt(0), answer |-> NewAnswer,
                     reps |-> r, nextrep |-> 0]>>,
        !.efs = e, !.hardnesses = h] :
        r \in 0..MaxStoredReps,
        e \in {<<>>, <<[card_id |-> 1, ef |-> defaultEF]>>},
        h \in {<<>>, <<[card_id |-> 1, hardness |-> 3]>>}}

LoadInit ==
    /\ variant = "deck"
    /\ now = 0
    /\ disk \in {[main |-> f, tmp |-> NoFile] : f \in StoredFiles}
    /\ session = "closed"
    /\ Cards = <<>>
    /\ Dirty = FALSE
    /\ pc = "idle"
    /\ syncCaller = "none"
    /\ pre = NoPre
    /\ last = NoReview
    /\ created = 0
    /\ faults = 0
    /\ c = NewCard(NewPrompt(0), NewAnswer, 0)
    /\ call = NoCall
    /\ deleted = {}
    /\ handles = NoHandles
    /\ st = NoStudy

LoadSpec == LoadInit /\ [][DeckNext]_vars

(* --------------------------- scheduler spec --------------------------- *)
\* both builds of CalcNextRep are examined
SchedInit ==
    /\ variant \in Variants
    /\ now = 0
    /\ disk = [main |-> NoFile, tmp |-> NoFile]
    /\ session = "closed"
    /\ Cards = <<>>
    /\ Dirty = FALSE
    /\ pc = "idle"
    /\ syncCaller = "none"
    /\ pre = NoPre
    /\ last = NoReview
    /\ created = 0
    /\ faults = 0
    /\ c = NewCard(NewPrompt(0), NewAnswer, 0)
    /\ call = NoCall
    /\ deleted = {}
    /\ handles = NoHandles
    /\ st = NoStudy

\* a fresh card is authored
SchedNewCard ==
    /\ \E frac \in Fracs : c' = NewCard(NewPrompt(0), NewAnswer, now + frac)
    /\ last' = NoReview
    /\ call' = NoCall
    /\ UNCHANGED <<variant, st, now, disk, session, Cards, Dirty, pc, syncCaller,
                   pre, created, faults, deleted, handles>>

\* the card is written by Sync as the only card of a deck and loaded again
\* by OpenDeck
SchedStoreLoad ==
    /\ LET inserts == DeckInserts(<<c>>)
           db == InsertAll(EmptyDB, inserts, Len(inserts))
       IN  \E p \in SortedPerms(db.cards) : c' = LoadDeck(db, p, now)[1]
    /\ last' = [last EXCEPT !.op = "OpenDeck"]
    /\ call' = Returned("OpenDeck", 0, FALSE)
    /\ UNCHANGED <<variant, st, now, disk, session, Cards, Dirty, pc, syncCaller,
                   pre, created, faults, deleted, handles>>

\* an interval kept per card and updated once per review: the values of
\* interval(1) and interval(2) on the first two reviews, then the value
\* before times the easiness this review appended
RunningInterval(running, card) ==
    IF card.Reps = 1 THEN [num |-> intervalOne, exp |-> 0]
    ELSE IF card.Reps = 2 THEN [num |-> intervalTwo, exp |-> 0]
    ELSE [num |-> running.num * card.EFs[Len(card.EFs)],
          exp |-> running.exp + 1]

\* one review of the card
SchedReview ==
    /\ c.Reps < MaxReps
    /\ \E h \in HardnessInputs :
          /\ c' = CalcNextRep(c, h, now, variant)
          /\ last' = [op |-> "CalcNextRep", hardness |-> h, at |-> now,
                      before |-> c,
                      running |-> RunningInterval(last.running, c')]
    /\ UNCHANGED <<variant, st, now>>
    /\ UNCHANGED deckVars

\* time passes until the second in which the card is due
SchedTick ==
    /\ ~IsDue(c, now)
    /\ Unix(c.NextRep) <= SecondsPerDay
    /\ now' = TimeUnix(Unix(c.NextRep))
    /\ UNCHANGED <<variant, st, last, c>>
    /\ UNCHANGED deckVars

SchedNext == SchedNewCard \/ SchedStoreLoad \/ SchedReview \/ SchedTick

SchedSpec == SchedInit /\ [][SchedNext]_vars

(* --------------------------- deck properties -------------------------- *)
Ids(cards) == {cards[i].Id : i \in 1..Len(cards)}

\* C11: after any sequence of Open, AddCard and DeleteCard, no two cards of
\* the deck in memory have the same id, and every id is non-negative.
C11_IdsUnique ==
    /\ \A i, j \in 1..Len(Cards) : i # j => Cards[i].Id # Cards[j].Id
    /\ \A i \in 1..Len(Cards) : Cards[i].Id >= 0

\* a card has been added to a deck that was opened from storage and from
\* which a card had been deleted
C11_Witness ==
    /\ call.op = "AddCard"
    /\ Len(Cards) >= 2
    /\ deleted # {}
    /\ disk.main.cards # <<>>

MaxId(cards) == CHOOSE m \in Ids(cards) : \A x \in Ids(cards) : x <= m

\* C12: AddCard gives the new card the id 0 when the deck is empty and
\* otherwise 1 + the largest id in the deck, which is the id of the last card.
C12_AddCardNumbering ==
    [][call'.op = "AddCard" =>
            /\ Len(Cards') = Len(Cards) + 1
            /\ SubSeq(Cards', 1, Len(Cards)) = Cards
            /\ Cards'[Len(Cards')].Id =
                  IF Cards = <<>> THEN 0 ELSE 1 + MaxId(Cards)
            /\ Cards # <<>> => Cards[Len(Cards)].Id = MaxId(Cards)]_vars

\* a card has been added after a deletion left ids that are not the positions
C12_Witness ==
    /\ call.op = "AddCard"
    /\ Len(Cards) = 2
    /\ Cards[1].Id = 1 /\ Cards[2].Id = 2

\* C13: within one session, an id assigned by AddCard is never the id of a
\* card that DeleteCard removed earlier in that session.
C13_NoIdReuse ==
    call.op = "AddCard" => Cards[Len(Cards)].Id \notin deleted

\* C14: DeleteCard(id) on a deck holding a card with that id removes exactly
\* the first such card, keeps every other card in the same relative order,
\* and sets Dirty.
C14_DeleteRemovesOne ==
    [][(call'.op = "DeleteCard" /\ call'.arg \in Ids(Cards)) =>
            LET k == CHOOSE i \in 1..Len(Cards) :
                        /\ Cards[i].Id = call'.arg
                        /\ \A m \in 1..(i - 1) : Cards[m].Id # call'.arg
            IN  /\ Len(Cards') = Len(Cards) - 1
                /\ \A i \in 1..Len(Cards') :
                      Cards'[i] = IF i < k THEN Cards[i] ELSE Cards[i + 1]
                /\ Dirty' = TRUE]_vars

\* the middle card of three has been deleted
C14_Witness ==
    /\ call.op = "DeleteCard"
    /\ Len(Cards) = 2
    /\ Cards[1].Id < call.arg /\ call.arg < Cards[2].Id
    /\ call.arg \in deleted
    /\ Dirty

\* C15: DeleteCard(id) with an id that no card has changes nothing: the
\* cards, their order and Dirty are as before.
C15_DeleteUnknownIsNoOp ==
    [][(call'.op = "DeleteCard" /\ call'.arg \notin Ids(Cards)) =>
            /\ Cards' = Cards
            /\ Dirty' = Dirty]_vars

\* an unknown id has been deleted from a clean deck that holds cards
C15_Witness ==
    /\ call.op = "DeleteCard"
    /\ call.arg \notin Ids(Cards)
    /\ Cards # <<>>
    /\ ~Dirty

\* C24: a del, edit or show command with an id that no card has leaves the
\* cards as they are; del returns nil, edit and show return an error and
\* print no card.
C24_UnknownIdCommands ==
    [][(call'.arg \notin Ids(Cards)) =>
            /\ call'.op = "DeleteCard" => Cards' = Cards /\ ~call'.err
            /\ call'.op = "editCard" => Cards' = Cards /\ call'.err
            /\ call'.op = "showCard" =>
                  Cards' = Cards /\ call'.err /\ call'.out = <<>>]_vars

\* C25: at a time t in whole seconds the cards that study presents and the
\* cards that the command "due" counts are both exactly the cards whose
\* next_due second is at most t.
C25_DueAtOrAfterNextDue ==
    Idle =>
        LET due == {i \in 1..Len(Cards) : Unix(Cards[i].NextRep) <= Unix(now)}
        IN  /\ \A i \in 1..Len(Cards) : IsDue(Cards[i], now) <=> i \in due
            /\ dueCards(Cards, now) = Cardinality(due)

\* C28: after a successful Open the card at position k of the deck has the
\* id k - 1, whatever the row ids in the file are, and after every step the
\* ids are strictly increasing along the deck.
C28_OpenRenumbers ==
    [][/\ (call'.op = "OpenDeck" /\ ~call'.err) =>
              \A k \in 1..Len(Cards') : Cards'[k].Id = k - 1
       /\ \A i, j \in 1..Len(Cards') :
              i < j => Cards'[i].Id < Cards'[j].Id]_vars

\* a deck has been opened whose first card is the second row of the file
C28_Witness ==
    /\ call.op = "OpenDeck"
    /\ Len(Cards) = 2
    /\ Cards[1].Prompt # Cards[2].Prompt
    /\ Cards[1].Prompt = disk.main.cards[2].prompt
    /\ Cards[1].Id = 0

\* C30: after OpenDeck has returned an error the session makes no use of
\* the deck: it does not read its cards and does not call Close on it.
C30_NoUseAfterOpenError ==
    [][(session \in {"nil", "panic"}) =>
            call'.op \notin {"deck.Cards", "deck.Close"}]_vars

(* ------------------------- storage properties ------------------------- *)
WritePhase == {"SyncOpen", "SyncSchema", "SyncInsert"}

\* C1: when Sync fails in its write phase (opening the temporary store,
\* creating its schema, inserting a row) it returns without having removed
\* or renamed anything: the file at the deck's path is the one found when
\* Sync was entered, so a later Open loads the pre-sync content.
C1_WritePhaseFailureKeepsFile ==
    [][(pc \in WritePhase /\ pc' \notin SyncPcs) =>
            /\ disk.main = pre.main
            /\ disk'.main = pre.main
            /\ \A p \in SortedPerms(disk'.main.cards) :
                  LoadDeck(disk'.main, p, now) = LoadDeck(pre.main, p, now)]_vars

\* a Sync has failed between two inserts of a reviewed card: the temporary
\* file holds part of the deck, the stored deck is still there
C1_Witness ==
    /\ pc = "idle" /\ faults > 0
    /\ disk.tmp.schema
    /\ Len(disk.tmp.hardnesses) < Len(disk.tmp.efs)
    /\ disk.main.cards # <<>>

\* a card as it is stored: next_due to the second
ToSecond(card) == [card EXCEPT !.NextRep = TimeUnix(Unix(@))]

\* C2: a successful Sync followed by Open on the same path yields the same
\* set of cards, each with the same id, prompt, answer, repetitions, next_due
\* (to the second) and the same histories in the same order.
C2_RoundTrip ==
    [][(pc = "SyncReopen" /\ pc' \notin SyncPcs) =>
            \A p \in SortedPerms(disk'.main.cards) :
                Range(LoadDeck(disk'.main, p, now))
                    = {ToSecond(Cards[i]) : i \in 1..Len(Cards)}]_vars

\* what a card says apart from its id, next_due to the second
Content(card) ==
    [prompt |-> card.Prompt, answer |-> card.Answer, reps |-> card.Reps,
     nextrep |-> Unix(card.NextRep), efs |-> card.EFs,
     hardnesses |-> card.Hardnesses]

MemoryContent == {Content(Cards[i]) : i \in 1..Len(Cards)}

StoredContent ==
    {Content(CardOfRow(disk.main, id, now)) : id \in 1..Len(disk.main.cards)}

\* C3: between the operations of a session, if the cards in memory differ
\* from what is stored at the deck's path then Dirty is true.
C3_DirtyWhenDiverged ==
    (Idle /\ MemoryContent # StoredContent) => Dirty

RECURSIVE EfRows(_, _)
\* the rows of table efs for the cards from number k on
EfRows(cards, k) ==
    IF k > Len(cards) THEN <<>>
    ELSE [j \in 1..Len(cards[k].EFs) |-> [card_id |-> k, ef |-> cards[k].EFs[j]]]
         \o EfRows(cards, k + 1)

RECURSIVE HardnessRows(_, _)
\* the rows of table hardnesses for the cards from number k on
HardnessRows(cards, k) ==
    IF k > Len(cards) THEN <<>>
    ELSE [j \in 1..Len(cards[k].Hardnesses) |->
              [card_id |-> k, hardness |-> cards[k].Hardnesses[j]]]
         \o HardnessRows(cards, k + 1)

\* the complete stored form of a deck: every card row and every history row
DeckImage(cards) ==
    [exists |-> TRUE, schema |-> TRUE,
     cards |-> [i \in 1..Len(cards) |-> CardRow(cards[i])],
     efs |-> EfRows(cards, 1),
     hardnesses |-> HardnessRows(cards, 1)]

\* C4: within one Sync the file at the deck's path is removed only when the
\* temporary file holds every card and history row of the deck in memory,
\* the rename comes only after the remove, and at every step the file at
\* the path, when it exists, is the complete pre-sync file or the complete
\* new one.
C4_SyncOrdering ==
    [][(pc \in SyncPcs) =>
            /\ disk.main.exists => disk.main \in {pre.main, DeckImage(Cards)}
            /\ disk'.main.exists => disk'.main \in {pre.main, DeckImage(Cards)}
            /\ (disk.main.exists /\ ~disk'.main.exists) =>
                  disk.tmp = DeckImage(Cards)
            /\ (disk'.main # disk.main /\ disk'.main.exists) =>
                  /\ ~disk.main.exists
                  /\ pre.main.exists
                  /\ disk'.main = disk.tmp
                  /\ disk.tmp = DeckImage(Cards)]_vars

\* the swap is done: the new file, with history rows, has replaced a stored
\* deck that differs from it
C4_Witness ==
    /\ pc = "SyncReopen"
    /\ disk.main = DeckImage(Cards)
    /\ disk.main # pre.main
    /\ disk.main.hardnesses # <<>>
    /\ pre.main.cards # <<>>

\* C16: when Sync returns no error, Dirty is false, the file at the deck's
\* path holds exactly the cards in memory with their full histories, the
\* file path + ".sync" no longer exists, and d.DB is a handle opened on the
\* deck's path by this Sync.
C16_SyncSuccess ==
    (call.op = "Sync" /\ ~call.err) =>
        /\ ~Dirty
        /\ disk.main = DeckImage(Cards)
        /\ ~disk.tmp.exists
        /\ handles.db = "Sync"

\* a Sync of two cards, one of them reviewed, has returned nil
C16_Witness ==
    /\ call.op = "Sync" /\ ~call.err
    /\ Len(Cards) = 2
    /\ \E i \in 1..2 : Cards[i].Hardnesses # <<>>

\* C17: when Sync returns an error, the deck in memory is what it was when
\* Sync was called: the same cards with the same fields, and the same Dirty.
C17_SyncFailureKeepsMemory ==
    [][(pc \in SyncPcs /\ call'.op = "Sync" /\ call'.err) =>
            /\ Cards' = pre.cards
            /\ Dirty' = pre.dirty]_vars

\* a Sync of a dirty deck with a reviewed card has returned an error
C17_Witness ==
    /\ call.op = "Sync" /\ call.err
    /\ Dirty
    /\ \E i \in 1..Len(Cards) : Cards[i].Reps > 0

\* C18: Close on a dirty deck runs Sync before it releases the handle and
\* returns the error of Sync; Close on a deck that is not dirty runs no
\* Sync and leaves the storage as it is.
C18_CloseSyncsWhenDirty ==
    [][/\ (Idle /\ syncCaller' = "Close") => (Dirty /\ pc' = "SyncOpen")
       /\ (syncCaller = "Close" /\ pc \in SyncPcs /\ call'.op # "stopped") =>
             session' = "open"
       /\ call'.op = "Close" =>
             IF pc = "Close"
             THEN /\ call.op = "Sync"
                  /\ call'.err = call.err
                  /\ handles'.db = "none"
             ELSE /\ ~Dirty
                  /\ ~call'.err
                  /\ disk' = disk
                  /\ handles'.db = "none"]_vars

\* Close has returned the error of its Sync, the stored deck is still there
C18_Witness ==
    /\ call.op = "Close" /\ call.err
    /\ session = "closed"
    /\ disk.main.cards # <<>>

\* the statements whose handle is open
OpenHandles(h) ==
    (IF h.db = "none" THEN {} ELSE {h.db})
        \union (IF h.tmp THEN {"Sync.db"} ELSE {})
        \union h.orphans

\* C19: after Close returns, with or without error, no handle opened for the
\* deck by OpenDeck or by any Sync is open.
C19_NoHandleAfterClose ==
    call.op = "Close" => OpenHandles(handles) = {}

\* C20: OpenDeck on a path with no storage creates the empty schema there
\* and returns, without error, a deck with no cards and Dirty false.
C20_OpenCreatesEmptyDeck ==
    [][(call'.op = "OpenDeck" /\ ~disk.main.exists) =>
            /\ ~call'.err
            /\ disk'.main.exists /\ disk'.main.schema
            /\ disk'.main.cards = <<>>
            /\ disk'.main.efs = <<>>
            /\ disk'.main.hardnesses = <<>>
            /\ session' = "open"
            /\ Cards' = <<>>
            /\ Dirty' = FALSE]_vars

\* the deck of a path on which nothing was stored before is open
C20_Witness ==
    /\ call.op = "OpenDeck" /\ ~call.err
    /\ created = 0
    /\ session = "open" /\ Cards = <<>> /\ ~Dirty
    /\ disk.main.schema /\ disk.main.cards = <<>>
    /\ disk.tmp = NoFile

\* the values of column field in the rows of table that belong to card id,
\* in ascending row id
StoredHistory(table, id, field) ==
    LET rows == SelectSeq(table, LAMBDA r : r.card_id = id)
    IN  [j \in 1..Len(rows) |-> rows[j][field]]

\* C21: after a successful Open of existing storage the cards in memory are
\* in ascending next_due order, each card has the fields of one stored row
\* and, as histories, exactly the easiness and hardness rows stored for that
\* row in ascending row id, and Dirty is false.
C21_OpenLoadsSorted ==
    [][(call'.op = "OpenDeck" /\ ~call'.err /\ disk.main.schema) =>
            LET db == disk.main
                n == Len(db.cards)
            IN  /\ Len(Cards') = n
                /\ \A i, j \in 1..n :
                      i < j => Cards'[i].NextRep <= Cards'[j].NextRep
                /\ \E p \in [1..n -> 1..n] :
                      /\ \A i, j \in 1..n : i # j => p[i] # p[j]
                      /\ \A k \in 1..n :
                            /\ Cards'[k].Prompt = db.cards[p[k]].prompt
                            /\ Cards'[k].Answer = db.cards[p[k]].answer
                            /\ Cards'[k].Reps = db.cards[p[k]].reps
                            /\ Cards'[k].NextRep =
                                  db.cards[p[k]].nextrep * TicksPerSec
                            /\ Cards'[k].EFs = StoredHistory(db.efs, p[k], "ef")
                            /\ Cards'[k].Hardnesses =
                                  StoredHistory(db.hardnesses, p[k], "hardness")
                /\ Dirty' = FALSE]_vars

\* a deck has been opened whose first stored row is due after the second
C21_Witness ==
    /\ call.op = "OpenDeck" /\ ~call.err
    /\ Len(Cards) = 2
    /\ disk.main.cards[1].nextrep > disk.main.cards[2].nextrep
    /\ Cards[2].Hardnesses # <<>>

\* C23: when the process stops after Sync has removed the file at the path
\* and before the rename, no file exists at the path and the file at
\* path + ".sync" holds the complete deck that was being saved; an Open of a
\* path without a file returns an empty deck and leaves path + ".sync" as
\* it is (unless the Open itself fails on I/O).
C23_StopBetweenRemoveAndRename ==
    [][/\ (pc = "SyncRename" /\ call'.op = "stopped") =>
              /\ ~disk'.main.exists
              /\ disk'.tmp = DeckImage(Cards)
       /\ (call'.op = "OpenDeck" /\ ~call'.err /\ ~disk.main.exists) =>
              /\ Cards' = <<>>
              /\ session' = "open"
              /\ disk'.main = EmptyDB
              /\ disk'.tmp = disk.tmp]_vars

\* the process has stopped in that window while saving a reviewed card
C23_Witness ==
    /\ call.op = "stopped"
    /\ ~disk.main.exists
    /\ \E i \in 1..Len(disk.tmp.cards) : disk.tmp.cards[i].reps > 0

\* the places where no Sync is past its schema creation
BeforeInserts == {"idle", "Close", "SyncOpen", "SyncSchema"}

C22_OpenRejectsMissingHistory ==
    [][(/\ call'.op = "OpenDeck"
        /\ disk.main.schema
        /\ \E id \in 1..Len(disk.main.cards) :
              /\ disk.main.cards[id].reps > 0
              /\ \/ StoredHistory(disk.main.efs, id, "ef") = <<>>
                 \/ StoredHistory(disk.main.hardnesses, id, "hardness") = <<>>)
            => call'.err /\ session' # "open"]_vars

(* ------------------------ scheduler properties ------------------------ *)
Max(a, b) == IF a >= b THEN a ELSE b

Reviewed == last.op = "CalcNextRep"

\* C5: after any number of CalcNextRep calls on a card made by NewCard,
\* len(EFs) = len(Hardnesses) = Reps; each call adds one to Reps and appends
\* exactly one entry to each history; a card with Reps = 0 has empty histories.
C5_HistoryLengths ==
    /\ Len(c.EFs) = c.Reps
    /\ Len(c.Hardnesses) = c.Reps
    /\ c.Reps = 0 => (c.EFs = <<>> /\ c.Hardnesses = <<>>)
    /\ Reviewed =>
          /\ c.Reps = last.before.Reps + 1
          /\ SubSeq(c.EFs, 1, c.Reps - 1) = last.before.EFs
          /\ c.Hardnesses = Append(last.before.Hardnesses, last.hardness)

C5_Witness == Reviewed /\ c.Reps = MaxReps

\* the interval of the documentation: I(1) = 1, I(2) = 4, I(k) = I(k-1) * EFs[k-1]
RECURSIVE ClaimedInterval(_, _)
ClaimedInterval(efs, n) ==
    IF n = 1 THEN [num |-> 1, exp |-> 0]
    ELSE IF n = 2 THEN [num |-> 4, exp |-> 0]
    ELSE LET p == ClaimedInterval(efs, n - 1)
         IN  [num |-> p.num * efs[n], exp |-> p.exp + 1]

\* C6: on a review number n >= 3 with a hardness other than 5, the due
\* offset is I(n) days with I(1) = 1, I(2) = 4, I(k) = I(k-1) * EFs[k-1]
\* (a 3rd review with hardness 3 gives 4 * 1.61 = 6.44 days).
C6_OffsetIsClaimedInterval ==
    (Reviewed /\ c.Reps >= 3 /\ last.hardness # 5) =>
        c.NextRep - last.at = DurationOfDays(ClaimedInterval(c.EFs, c.Reps))

\* C7: on a review number n >= 3 the appended easiness is
\* max(1.3, prev - 0.8 + 0.28 q - 0.02 q^2) with q the hardness of this call
\* and prev the easiness appended by the review just before (EFs[n-2]).
C7_EasinessFromPrevious ==
    (Reviewed /\ c.Reps >= 3) =>
        LET q == last.hardness
            prev == last.before.EFs[Len(last.before.EFs)]
        IN  c.EFs[c.Reps] = Max(130, prev - 80 + 28 * q - 2 * q * q)

C7_Witness ==
    /\ Reviewed /\ c.Reps = 4
    /\ last.before.EFs[3] # last.before.EFs[2]
    /\ c.EFs[4] > 130

\* C8: whatever the hardness, the 1st review sets next_due to now + 1 day and
\* the 2nd to now + 4 days, and both append the default easiness 1.75.
C8_FirstTwoReviews ==
    (Reviewed /\ c.Reps <= 2) =>
        /\ c.EFs[c.Reps] = 175
        /\ c.Reps = 1 => c.NextRep = last.at + 1 * 86400 * TicksPerSec
        /\ c.Reps = 2 => c.NextRep = last.at + 4 * 86400 * TicksPerSec

C8_Witness ==
    /\ Reviewed /\ c.Reps = 2
    /\ last.hardness \notin 1..4
    /\ c.Hardnesses[1] \notin 1..5

\* C9: on a review number n >= 3 a hardness of 5 sets next_due to the
\* current time, while the new easiness and the hardness are still appended.
C9_HardnessFiveIsImmediate ==
    (Reviewed /\ c.Reps >= 3 /\ last.hardness = 5) =>
        /\ c.NextRep = last.at
        /\ Len(c.EFs) = Len(last.before.EFs) + 1
        /\ c.Hardnesses = Append(last.before.Hardnesses, 5)

\* C10: for every sequence of reviews with arbitrary integer hardness, every
\* value of the easiness history is at least 1.3.
C10_EasinessFloor == \A i \in 1..Len(c.EFs) : c.EFs[i] >= 130

C10_Witness ==
    /\ Reviewed /\ c.Reps >= 3
    /\ last.hardness = 0
    /\ c.EFs[c.Reps] = 130

RECURSIVE IntervalReads(_)
\* the positions of EFs that interval(n) reads (position k is EFs[k-1] in Go)
IntervalReads(n) == IF n <= 2 THEN {} ELSE IntervalReads(n - 1) \union {n}

\* C29: a card made by NewCard, or loaded by OpenDeck from a file that Sync
\* wrote, has at least n - 1 easiness entries when its review number n >= 3
\* is computed, so CalcNextRep reads an existing entry, and interval(n)
\* reads the entries EFs[2..n-1] only, all of which exist.
C29_HistoryIndexesInRange ==
    /\ c.Reps >= 2 => Len(c.EFs) >= c.Reps /\ Len(c.Hardnesses) >= c.Reps
    /\ (Reviewed /\ c.Reps >= 3) =>
          /\ (c.Reps - 1) \in DOMAIN last.before.EFs
          /\ IntervalReads(c.Reps) = 3..c.Reps
          /\ IntervalReads(c.Reps) \subseteq DOMAIN c.EFs

\* a card that was loaded from storage after two reviews has been reviewed
\* a third time
C29_Witness ==
    /\ call.op = "OpenDeck"
    /\ Reviewed /\ c.Reps = 3
    /\ last.before.NextRep % TicksPerSec = 0

\* C32: for every review history and every n from 3 to the number of
\* reviews, interval(n) is at least 1.3 times interval(n-1), hence larger
\* than interval(n-1), whatever hardness was given.
C32_IntervalGrowth ==
    \A n \in 3..c.Reps :
        LET a == interval(c.EFs, n)
            b == interval(c.EFs, n - 1)
        IN  /\ a.exp = b.exp + 1
            /\ a.num >= 130 * b.num
            /\ a.num > 100 * b.num
            /\ b.num > 0

\* a fourth review whose interval is exactly 1.3 times that of the third
C32_Witness ==
    /\ Reviewed /\ c.Reps = 4
    /\ last.hardness = 0
    /\ interval(c.EFs, 4).num = 130 * interval(c.EFs, 3).num
    /\ interval(c.EFs, 3).num > 130 * intervalTwo

(* -------------------------- study properties -------------------------- *)
\* C31: one study command ends; while it runs each card is reviewed at most
\* once, also a card that a hardness of 5 has made due again at once; it
\* ends either with the input error and no Sync, or by entering Sync, one
\* time, with the deck that one pass over the cards produces, reviewed
\* cards or not; no other step enters Sync and the Sync returns to the
\* shell.
C31_StudyOnePass ==
    /\ [][/\ (pc = "study") =>
               /\ Len(Cards') = Len(st.before)
               /\ \A k \in 1..Len(Cards') :
                     \/ Cards'[k] = st.before[k]
                     \/ /\ Cards'[k].Reps = st.before[k].Reps + 1
                        /\ IsDue(st.before[k], now)
               /\ (pc' # "study") =>
                     \/ call'.err /\ pc' = "idle"
                     \/ /\ ~call'.err
                        /\ pc' = "SyncOpen" /\ syncCaller' = "study"
                        /\ \E hs \in [1..Len(Cards) -> StudyHardness] :
                              Cards' = StudyLoop(st.before, 1, 0, hs, 0, now,
                                                 variant).cards
          /\ (pc' = "SyncOpen" /\ pc # "SyncOpen") => pc = "study"
          /\ (pc \in SyncPcs /\ pc' \notin SyncPcs) => pc' = "idle"]_vars
    /\ (pc = "study") ~> (pc # "study")

\* a study has entered Sync after a third review with hardness 5, which left
\* the card due in the same second
C31_Witness ==
    /\ pc = "SyncOpen" /\ syncCaller = "study"
    /\ \E k \in 1..Len(Cards) :
          /\ Cards[k].Reps = 3
          /\ Cards[k].Hardnesses[3] = immediateHardness
          /\ IsDue(Cards[k], now)

====
